---- MODULE Spec2Model ----
(***************************************************************************)
(* Model of src/app.py: the PDF translator's block classifier              *)
(* (TextBlock.clasificar_tipo), paragraph assembler                        *)
(* (agrupar_bloques_en_parrafos), chunked translator                       *)
(* (traducir_texto_inteligente) and the button handler's pipeline.         *)
(*                                                                         *)
(* A text is a sequence of one-character strings.  None is the empty       *)
(* sequence where the value is otherwise wrapped (<<y>>), and the string   *)
(* "None" for ultimo_tipo.                                                 *)
(***************************************************************************)
EXTENDS Integers, Sequences, FiniteSets

VARIABLES
  \* TextBlock construction (lines 25-54)
  span, bloque_nuevo,
  \* agrupar_bloques_en_parrafos (lines 91-145)
  bloques, i_bloque, parrafos, buffer, ultimo_y, ultimo_tipo, pcA,
  origen, buffer_idx,
  \* traducir_texto_inteligente (lines 147-189)
  texto, modo, pcT, oraciones, i_oracion, buffer_trad, texto_traducido,
  retorno, llamadas, eventos, trozos, trozo_actual,
  \* the button handler (lines 328-425)
  pdf_documento, pcM, num_paginas, todas_paginas_bloques,
  todas_paginas_parrafos, i_pagina, i_parrafo, parrafos_traducidos,
  paginas_traducidas, salida, excepcion, registro, registro_pagina

varsC == <<span, bloque_nuevo>>
varsA == <<bloques, i_bloque, parrafos, buffer, ultimo_y, ultimo_tipo, pcA,
           origen, buffer_idx>>
varsT == <<texto, modo, pcT, oraciones, i_oracion, buffer_trad,
           texto_traducido, retorno, llamadas, eventos, trozos, trozo_actual>>
varsM == <<pdf_documento, pcM, num_paginas, todas_paginas_bloques,
           todas_paginas_parrafos, i_pagina, i_parrafo, parrafos_traducidos,
           paginas_traducidas, salida, excepcion, registro, registro_pagina>>
vars == <<varsC, varsA, varsT, varsM>>

-----------------------------------------------------------------------------
(* Bounds of the model *)

\* longest block sequence of one page fed to the assembler
MaxBloques == 3

\* longest text handed to the translator on its own
MaxTexto == 6

\* max_caracteres (4500 by default, line 147), scaled down with the texts
MaxCaracteres == 4

\* most spans on one page of a document given to the pipeline
MaxSpans == 2

-----------------------------------------------------------------------------
(* Strings *)

\* Python's \s and str.strip() whitespace, as far as the alphabet goes
Espacios == {" ", "\t", "\n"}

Digitos == {"0", "1", "2", "3", "4", "5", "6", "7", "8", "9"}

Mayusculas ==
  {"A", "B", "C", "D", "E", "F", "G", "H", "I", "J", "K", "L", "M",
   "N", "O", "P", "Q", "R", "S", "T", "U", "V", "W", "X", "Y", "Z"}

\* the class [\d\.\-\•\◦] of line 46; the two bullets are written by code point
Marcadores == Digitos \cup {".", "-", "U+2022", "U+25E6"}

MinDe(S) == CHOOSE m \in S : \A n \in S : m <= n

MaxDe(S) == CHOOSE m \in S : \A n \in S : m >= n

Abs(n) == IF n < 0 THEN -n ELSE n

\* str.strip()
Strip(s) ==
  LET visibles == {k \in 1..Len(s) : s[k] \notin Espacios}
  IN  IF visibles = {} THEN <<>>
      ELSE SubSeq(s, MinDe(visibles), MaxDe(visibles))

\* ' '.join(lista)
RECURSIVE JoinSp(_)
JoinSp(lista) ==
  IF lista = <<>> THEN <<>>
  ELSE IF Len(lista) = 1 THEN lista[1]
  ELSE lista[1] \o <<" ">> \o JoinSp(Tail(lista))

\* n copies of the letter x
Relleno(n) == [k \in 1..n |-> "x"]

-----------------------------------------------------------------------------
(* TextBlock (lines 25-54) *)

\* re.match(r'^[\d\.\-\•\◦]+\s+', text)
EsListaMarcador(text) ==
  \E k \in 1..Len(text) :
    /\ \A j \in 1..k : text[j] \in Marcadores
    /\ k + 1 <= Len(text)
    /\ text[k + 1] \in Espacios

\* re.match(r'^[A-Z][\.\)]\s+', text)
EsListaLetra(text) ==
  /\ Len(text) >= 3
  /\ text[1] \in Mayusculas
  /\ text[2] \in {".", ")"}
  /\ text[3] \in Espacios

\* a plausible slip: the list test ahead of the heading test
clasificar_tipo_lista_primero(self) ==
  IF EsListaMarcador(self.text) \/ EsListaLetra(self.text) THEN "lista"
  ELSE IF (self.font_size > 12 \/ self.is_bold) /\ Len(self.text) < 100
    THEN "titulo"
  ELSE IF Len(self.text) < 80 /\ self.font_size > 10 THEN "subtitulo"
  ELSE "parrafo"

\* TextBlock.clasificar_tipo
clasificar_tipo(self) ==
  IF (self.font_size > 12 \/ self.is_bold) /\ Len(self.text) < 100
    THEN "titulo"
  ELSE IF EsListaMarcador(self.text) \/ EsListaLetra(self.text) THEN "lista"
  ELSE IF Len(self.text) < 80 /\ self.font_size > 10 THEN "subtitulo"
  ELSE "parrafo"

\* TextBlock.__init__
TextBlock(text, font_size, is_bold, x, y, page_num) ==
  LET self == [text |-> Strip(text), font_size |-> font_size,
               is_bold |-> is_bold, x |-> x, y |-> y, page_num |-> page_num]
  IN  [text |-> self.text, font_size |-> font_size, is_bold |-> is_bold,
       x |-> x, y |-> y, page_num |-> page_num,
       tipo |-> clasificar_tipo(self)]

\* texts around the length thresholds 80 and 100, with and without markers
PrefijosClasificar ==
  {<<>>, <<"1", ".", " ">>, <<"-", " ">>, <<"A", ")", " ">>,
   <<"B", ".", " ">>, <<"A", " ">>, <<"a", ".", " ">>, <<" ", "2", "\t">>}

LongitudesClasificar == {1, 76, 77, 78, 79, 80, 96, 97, 98, 99, 100}

TextosClasificar ==
  {pre \o Relleno(n) \o suf :
     pre \in PrefijosClasificar, n \in LongitudesClasificar,
     suf \in {<<>>, <<" ">>}}

SpansClasificar ==
  [text : TextosClasificar, font_size : {10, 11, 12, 13},
   is_bold : BOOLEAN, x : {0}, y : {0, 16}, page_num : {0, 1}]

\* line 84: one TextBlock is built from one span
CrearTextBlock ==
  /\ bloque_nuevo = <<>>
  /\ span # <<>>
  /\ bloque_nuevo' = <<TextBlock(span[1].text, span[1].font_size,
                                 span[1].is_bold, span[1].x, span[1].y,
                                 span[1].page_num)>>
  /\ UNCHANGED <<span, varsA, varsT, varsM>>

-----------------------------------------------------------------------------
(* agrupar_bloques_en_parrafos (lines 91-145) *)

\* a plausible slip: only 'titulo' treated as a heading
EsEncabezadoSoloTitulo(bloque) == bloque.tipo = "titulo"

\* line 105
EsEncabezado(bloque) == bloque.tipo \in {"titulo", "subtitulo"}

\* a plausible slip: >= in place of >
HaySaltoInclusivo(uy, bloque) == uy # <<>> /\ Abs(bloque.y - uy[1]) >= 15

\* line 124
HaySalto(uy, bloque) == uy # <<>> /\ Abs(bloque.y - uy[1]) > 15

\* a plausible slip: font_size of the last buffered block
ParrafoDeBufferUltimo(buf, ut) ==
  [texto |-> JoinSp([k \in 1..Len(buf) |-> buf[k].text]),
   tipo |-> IF ut = "None" THEN "parrafo" ELSE ut,
   font_size |-> buf[Len(buf)].font_size]

\* lines 107-111, 126-130, 139-143: the unit made of a non-empty buffer
ParrafoDeBuffer(buf, ut) ==
  [texto |-> JoinSp([k \in 1..Len(buf) |-> buf[k].text]),
   tipo |-> IF ut = "None" THEN "parrafo" ELSE ut,
   font_size |-> buf[1].font_size]

\* lines 114-118: the unit made of one heading block
ParrafoDeEncabezado(bloque) ==
  [texto |-> bloque.text, tipo |-> bloque.tipo,
   font_size |-> bloque.font_size]

\* lines 95-101
EntrarAgrupar ==
  /\ pcA = "entrada"
  /\ parrafos' = <<>>
  /\ buffer' = <<>>
  /\ ultimo_y' = <<>>
  /\ ultimo_tipo' = "None"
  /\ i_bloque' = 0
  /\ origen' = <<>>
  /\ buffer_idx' = <<>>
  /\ pcA' = IF bloques = <<>> THEN "fin" ELSE "bucle"
  /\ UNCHANGED <<bloques, varsC, varsT, varsM>>

\* lines 103-135: one iteration of the loop
ProcesarBloque ==
  /\ pcA = "bucle"
  /\ i_bloque < Len(bloques)
  /\ LET bloque == bloques[i_bloque + 1]
         vaciar == buffer # <<>>
     IN  IF EsEncabezado(bloque)
         THEN /\ parrafos' =
                   (IF vaciar
                    THEN Append(parrafos, ParrafoDeBuffer(buffer, ultimo_tipo))
                    ELSE parrafos) \o <<ParrafoDeEncabezado(bloque)>>
              /\ origen' =
                   (IF vaciar THEN Append(origen, buffer_idx) ELSE origen)
                   \o <<(<<i_bloque + 1>>)>>
              /\ buffer' = <<>>
              /\ buffer_idx' = <<>>
              /\ ultimo_y' = <<bloque.y>>
              /\ ultimo_tipo' = bloque.tipo
         ELSE LET corta == HaySalto(ultimo_y, bloque) /\ vaciar
              IN  /\ parrafos' =
                       IF corta
                       THEN Append(parrafos,
                                   ParrafoDeBuffer(buffer, ultimo_tipo))
                       ELSE parrafos
                  /\ origen' =
                       IF corta THEN Append(origen, buffer_idx) ELSE origen
                  /\ buffer' = Append(IF corta THEN <<>> ELSE buffer, bloque)
                  /\ buffer_idx' =
                       Append(IF corta THEN <<>> ELSE buffer_idx, i_bloque + 1)
                  /\ ultimo_y' = <<bloque.y>>
                  /\ ultimo_tipo' = bloque.tipo
  /\ i_bloque' = i_bloque + 1
  /\ UNCHANGED <<bloques, pcA, varsC, varsT, varsM>>

\* lines 137-145
FinalizarAgrupar ==
  /\ pcA = "bucle"
  /\ i_bloque = Len(bloques)
  /\ parrafos' =
       IF buffer # <<>>
       THEN Append(parrafos, ParrafoDeBuffer(buffer, ultimo_tipo))
       ELSE parrafos
  /\ origen' = IF buffer # <<>> THEN Append(origen, buffer_idx) ELSE origen
  /\ pcA' = "fin"
  /\ UNCHANGED <<bloques, i_bloque, buffer, buffer_idx, ultimo_y, ultimo_tipo,
                 varsC, varsT, varsM>>

\* spans of a page, one of each tipo, at vertical positions 15 and 16 apart
SpansPagina ==
  {[text |-> <<"T">>, font_size |-> 13, is_bold |-> FALSE],
   [text |-> <<"s">>, font_size |-> 11, is_bold |-> FALSE],
   [text |-> <<"1", ".", " ", "a">>, font_size |-> 12, is_bold |-> FALSE],
   [text |-> <<"p">>, font_size |-> 10, is_bold |-> FALSE]}

PosicionesY == {0, 15, 31}

BloquesPagina ==
  {TextBlock(s.text, s.font_size, s.is_bold, 0, y, 0) :
     s \in SpansPagina, y \in PosicionesY}

-----------------------------------------------------------------------------
(* traducir_texto_inteligente (lines 147-189) *)

\* the class [.!?] of line 165
FinesDeOracion == {".", "!", "?"}

\* re.split(r'(?<=[.!?])\s+', texto): a separator is a whole run of
\* whitespace that starts right after a sentence-ending character
RECURSIVE Dividir(_)
Dividir(t) ==
  LET cortes == {p \in 2..Len(t) :
                   t[p] \in Espacios /\ t[p - 1] \in FinesDeOracion}
  IN  IF cortes = {} THEN <<t>>
      ELSE LET p == MinDe(cortes)
               resto == {q \in p..Len(t) : t[q] \notin Espacios}
               q == IF resto = {} THEN Len(t) + 1 ELSE MinDe(resto)
           IN  <<SubSeq(t, 1, p - 1)>> \o Dividir(SubSeq(t, q, Len(t)))

\* GoogleTranslator.translate when it answers: "es" puts e for a, "eco"
\* returns its input unchanged
Servicio(m, s) ==
  IF m = "eco" THEN s
  ELSE [k \in 1..Len(s) |-> IF s[k] = "a" THEN "e" ELSE s[k]]

\* a plausible slip: < in place of <=
EsCortoEstricto(t) == Len(t) < MaxCaracteres

\* line 157
EsCorto(t) == Len(t) <= MaxCaracteres

\* line 170
Cabe(buf, oracion) == Len(buf) + Len(oracion) < MaxCaracteres

\* a plausible slip: the sentence that did not fit is not carried over
NuevoBufferVacio(oracion) == <<>>

\* line 180
NuevoBuffer(oracion) == oracion \o <<" ">>

\* a plausible slip: nothing is kept for a chunk whose call failed
SustitutoVacio(buf) == <<>>

\* lines 179, 187: what stands for a chunk whose call failed
Sustituto(buf) == buf

\* lines 174-179, 183-187: one call for the chunk in buf, answered or failed
ResultadoTrozo(m, buf, ok) ==
  IF ok THEN Servicio(m, Strip(buf)) ELSE Sustituto(buf)

Llamada(buf, ok) == [enviado |-> Strip(buf), original |-> buf, ok |-> ok]

\* lines 151-157, 165-167
EntrarTraducir ==
  /\ pcT = "entrada"
  /\ llamadas' = <<>>
  /\ eventos' = <<>>
  /\ trozos' = <<>>
  /\ trozo_actual' = <<>>
  /\ texto_traducido' = <<>>
  /\ buffer_trad' = <<>>
  /\ i_oracion' = 0
  /\ IF texto = <<>> \/ Len(Strip(texto)) = 0
     THEN /\ retorno' = <<>>
          /\ oraciones' = <<>>
          /\ pcT' = "ret"
     ELSE IF EsCorto(texto)
     THEN /\ oraciones' = <<>>
          /\ pcT' = "corto"
          /\ UNCHANGED retorno
     ELSE /\ oraciones' = Dividir(texto)
          /\ pcT' = "bucle"
          /\ UNCHANGED retorno
  /\ UNCHANGED <<texto, modo, varsC, varsA, varsM>>

\* lines 158-162: the single call of a short text
TraducirCorto(ok) ==
  /\ pcT = "corto"
  /\ retorno' = IF ok THEN Servicio(modo, texto) ELSE texto
  /\ llamadas' =
       Append(llamadas, [enviado |-> texto, original |-> texto, ok |-> ok])
  /\ eventos' = Append(eventos, "llamada")
  /\ pcT' = "ret"
  /\ UNCHANGED <<texto, modo, oraciones, i_oracion, buffer_trad,
                 texto_traducido, trozos, trozo_actual, varsC, varsA, varsM>>

\* lines 169-180: one iteration of the loop over the sentences
ProcesarOracion(ok) ==
  /\ pcT = "bucle"
  /\ i_oracion < Len(oraciones)
  /\ LET oracion == oraciones[i_oracion + 1]
     IN  IF Cabe(buffer_trad, oracion)
         THEN /\ buffer_trad' = buffer_trad \o oracion \o <<" ">>
              /\ trozo_actual' = Append(trozo_actual, i_oracion + 1)
              /\ UNCHANGED <<texto_traducido, llamadas, eventos, trozos>>
         ELSE /\ IF buffer_trad # <<>>
                 THEN /\ texto_traducido' =
                           Append(texto_traducido,
                                  ResultadoTrozo(modo, buffer_trad, ok))
                      /\ llamadas' = Append(llamadas, Llamada(buffer_trad, ok))
                      /\ eventos' =
                           eventos \o
                           (IF ok THEN <<"llamada", "sleep">>
                            ELSE <<"llamada">>)
                      /\ trozos' = Append(trozos, trozo_actual)
                 ELSE UNCHANGED <<texto_traducido, llamadas, eventos, trozos>>
              /\ buffer_trad' = NuevoBuffer(oracion)
              /\ trozo_actual' =
                   IF NuevoBuffer(oracion) = <<>> THEN <<>>
                   ELSE <<i_oracion + 1>>
  /\ i_oracion' = i_oracion + 1
  /\ UNCHANGED <<texto, modo, pcT, oraciones, retorno, varsC, varsA, varsM>>

\* lines 182-189: the last chunk and the joined result
TerminarTraducir(ok) ==
  /\ pcT = "bucle"
  /\ i_oracion = Len(oraciones)
  /\ LET final ==
           IF buffer_trad # <<>>
           THEN Append(texto_traducido, ResultadoTrozo(modo, buffer_trad, ok))
           ELSE texto_traducido
     IN  /\ texto_traducido' = final
         /\ retorno' = JoinSp(final)
  /\ IF buffer_trad # <<>>
     THEN /\ llamadas' = Append(llamadas, Llamada(buffer_trad, ok))
          /\ eventos' = Append(eventos, "llamada")
          /\ trozos' = Append(trozos, trozo_actual)
     ELSE UNCHANGED <<llamadas, eventos, trozos>>
  /\ pcT' = "ret"
  /\ UNCHANGED <<texto, modo, oraciones, i_oracion, buffer_trad, trozo_actual,
                 varsC, varsA, varsM>>

\* texts of at most MaxTexto characters over a letter, a sentence end and
\* a blank
TextosTraducir ==
  UNION {[1..n -> {"a", ".", " "}] : n \in 0..MaxTexto}

-----------------------------------------------------------------------------
(* extraer_bloques_estructurados (lines 56-89) *)

\* lines 69-85: the blocks of one page whose text can be read
RECURSIVE BloquesDeSpans(_, _)
BloquesDeSpans(spans, num_pagina) ==
  IF spans = <<>> THEN <<>>
  ELSE LET s == Head(spans)
           txt == Strip(s.text)
           resto == BloquesDeSpans(Tail(spans), num_pagina)
       IN  IF txt = <<>> THEN resto
           ELSE <<TextBlock(txt, s.font_size, s.is_bold, s.x, s.y,
                            num_pagina)>> \o resto

\* line 67: pagina.get_text raises on a page that cannot be read
FallaExtraccion(doc) ==
  \E k \in 1..Len(doc.paginas) : ~doc.paginas[k].legible

\* lines 60-89, when no page raises
extraer_bloques_estructurados(doc) ==
  [k \in 1..Len(doc.paginas) |->
     BloquesDeSpans(doc.paginas[k].spans, k - 1)]

-----------------------------------------------------------------------------
(* crear_pdf_profesional (lines 248-297) *)

\* line 273
RECURSIVE Escapar(_)
Escapar(t) ==
  IF t = <<>> THEN <<>>
  ELSE (CASE Head(t) = "&" -> <<"&", "a", "m", "p", ";">>
          [] Head(t) = "<" -> <<"&", "l", "t", ";">>
          [] Head(t) = ">" -> <<"&", "g", "t", ";">>
          [] OTHER -> <<Head(t)>>) \o Escapar(Tail(t))

\* lines 277-284
Estilo(tipo) ==
  CASE tipo = "titulo" -> "TituloPrincipal"
    [] tipo = "subtitulo" -> "Subtitulo"
    [] tipo = "lista" -> "ItemLista"
    [] OTHER -> "ParrafoNormal"

\* lines 265-286: the flowables of one page
RECURSIVE HistoriaDePagina(_)
HistoriaDePagina(pagina_parrafos) ==
  IF pagina_parrafos = <<>> THEN <<>>
  ELSE LET parrafo_info == Head(pagina_parrafos)
           resto == HistoriaDePagina(Tail(pagina_parrafos))
       IN  IF Strip(parrafo_info.texto) = <<>> THEN resto
           ELSE <<[flowable |-> "Paragraph",
                   estilo |-> Estilo(parrafo_info.tipo),
                   texto |-> Escapar(parrafo_info.texto)]>> \o resto

\* lines 264-294: the story, kept page by page (its flowables are those of
\* the pages in order), with a page break after every page but the last
Historia(paginas) ==
  [i \in 1..Len(paginas) |->
     HistoriaDePagina(paginas[i])
     \o (IF i < Len(paginas)
         THEN <<[flowable |-> "PageBreak", estilo |-> "", texto |-> <<>>]>>
         ELSE <<>>)]

crear_pdf_profesional(paginas) == Historia(paginas)

-----------------------------------------------------------------------------
(* The button handler (lines 328-425) *)

\* lines 331-340: open the document and check the page cap
AbrirPDF ==
  /\ pcM = "inicio"
  /\ IF ~pdf_documento.abre
     THEN /\ pcM' = "error"
          /\ excepcion' = "abrir"
          /\ UNCHANGED num_paginas
     ELSE /\ num_paginas' = Len(pdf_documento.paginas)
          /\ pcM' = IF Len(pdf_documento.paginas) > 400 THEN "rechazado"
                    ELSE "paso1"
          /\ UNCHANGED excepcion
  /\ UNCHANGED <<pdf_documento, todas_paginas_bloques, todas_paginas_parrafos,
                 i_pagina, i_parrafo, parrafos_traducidos, paginas_traducidas,
                 salida, registro, registro_pagina, varsC, varsA, varsT>>

\* line 348; an exception leaves through the handler of line 422
ExtraerBloques ==
  /\ pcM = "paso1"
  /\ IF FallaExtraccion(pdf_documento)
     THEN /\ pcM' = "error"
          /\ excepcion' = "extraccion"
          /\ UNCHANGED todas_paginas_bloques
     ELSE /\ todas_paginas_bloques' =
               extraer_bloques_estructurados(pdf_documento)
          /\ pcM' = "paso2"
          /\ UNCHANGED excepcion
  /\ i_pagina' = 0
  /\ UNCHANGED <<pdf_documento, num_paginas, todas_paginas_parrafos,
                 i_parrafo, parrafos_traducidos, paginas_traducidas, salida,
                 registro, registro_pagina, varsC, varsA, varsT>>

\* line 355: the call
LlamarAgrupar ==
  /\ pcM = "paso2"
  /\ pcA = "inactivo"
  /\ i_pagina < Len(todas_paginas_bloques)
  /\ bloques' = todas_paginas_bloques[i_pagina + 1]
  /\ pcA' = "entrada"
  /\ UNCHANGED <<i_bloque, parrafos, buffer, ultimo_y, ultimo_tipo, origen,
                 buffer_idx, varsC, varsT, varsM>>

\* lines 355-356: the return
RecogerAgrupar ==
  /\ pcM = "paso2"
  /\ pcA = "fin"
  /\ todas_paginas_parrafos' = Append(todas_paginas_parrafos, parrafos)
  /\ i_pagina' = i_pagina + 1
  /\ pcA' = "inactivo"
  /\ UNCHANGED <<bloques, i_bloque, parrafos, buffer, ultimo_y, ultimo_tipo,
                 origen, buffer_idx, pdf_documento, pcM, num_paginas,
                 todas_paginas_bloques, i_parrafo, parrafos_traducidos,
                 paginas_traducidas, salida, excepcion, registro,
                 registro_pagina, varsC, varsT>>

\* lines 357-362
TerminarPaso2 ==
  /\ pcM = "paso2"
  /\ pcA = "inactivo"
  /\ i_pagina = Len(todas_paginas_bloques)
  /\ pcM' = "paso3"
  /\ i_pagina' = 0
  /\ i_parrafo' = 0
  /\ paginas_traducidas' = <<>>
  /\ parrafos_traducidos' = <<>>
  /\ registro' = <<>>
  /\ registro_pagina' = <<>>
  /\ UNCHANGED <<pdf_documento, num_paginas, todas_paginas_bloques,
                 todas_paginas_parrafos, salida, excepcion, varsC, varsA,
                 varsT>>

\* lines 369-372: the call
LlamarTraducir ==
  /\ pcM = "paso3"
  /\ pcT = "inactivo"
  /\ i_pagina < Len(todas_paginas_parrafos)
  /\ i_parrafo < Len(todas_paginas_parrafos[i_pagina + 1])
  /\ texto' = todas_paginas_parrafos[i_pagina + 1][i_parrafo + 1].texto
  /\ pcT' = "entrada"
  /\ UNCHANGED <<modo, oraciones, i_oracion, buffer_trad, texto_traducido,
                 retorno, llamadas, eventos, trozos, trozo_actual, varsC,
                 varsA, varsM>>

\* lines 372-380: the return
RecogerTraducir ==
  /\ pcM = "paso3"
  /\ pcT = "ret"
  /\ LET parrafo_info == todas_paginas_parrafos[i_pagina + 1][i_parrafo + 1]
     IN  parrafos_traducidos' =
           Append(parrafos_traducidos,
                  [texto |-> retorno, tipo |-> parrafo_info.tipo,
                   font_size |-> parrafo_info.font_size])
  /\ registro_pagina' = Append(registro_pagina, llamadas)
  /\ i_parrafo' = i_parrafo + 1
  /\ pcT' = "inactivo"
  /\ UNCHANGED <<texto, modo, oraciones, i_oracion, buffer_trad,
                 texto_traducido, retorno, llamadas, eventos, trozos,
                 trozo_actual, pdf_documento, pcM, num_paginas,
                 todas_paginas_bloques, todas_paginas_parrafos, i_pagina,
                 paginas_traducidas, salida, excepcion, registro, varsC,
                 varsA>>

\* lines 385-386
TerminarPagina ==
  /\ pcM = "paso3"
  /\ pcT = "inactivo"
  /\ i_pagina < Len(todas_paginas_parrafos)
  /\ i_parrafo = Len(todas_paginas_parrafos[i_pagina + 1])
  /\ paginas_traducidas' = Append(paginas_traducidas, parrafos_traducidos)
  /\ registro' = Append(registro, registro_pagina)
  /\ parrafos_traducidos' = <<>>
  /\ registro_pagina' = <<>>
  /\ i_pagina' = i_pagina + 1
  /\ i_parrafo' = 0
  /\ UNCHANGED <<pdf_documento, pcM, num_paginas, todas_paginas_bloques,
                 todas_paginas_parrafos, salida, excepcion, varsC, varsA,
                 varsT>>

\* lines 388-418
GenerarPDF ==
  /\ pcM = "paso3"
  /\ pcT = "inactivo"
  /\ i_pagina = Len(todas_paginas_parrafos)
  /\ salida' = <<crear_pdf_profesional(paginas_traducidas)>>
  /\ pcM' = "hecho"
  /\ UNCHANGED <<pdf_documento, num_paginas, todas_paginas_bloques,
                 todas_paginas_parrafos, i_pagina, i_parrafo,
                 parrafos_traducidos, paginas_traducidas, excepcion, registro,
                 registro_pagina, varsC, varsA, varsT>>

\* spans as the decoder gives them: a title, a list item, a blank run
SpansDocumento ==
  {[text |-> <<"T", "a">>, font_size |-> 13, is_bold |-> FALSE,
    x |-> 0, y |-> 0],
   [text |-> <<"1", ".", " ", "a">>, font_size |-> 12, is_bold |-> FALSE,
    x |-> 0, y |-> 0],
   [text |-> <<" ">>, font_size |-> 10, is_bold |-> FALSE,
    x |-> 0, y |-> 0]}

\* a page the decoder reads, or one on which get_text raises
PaginasDocumento ==
  {[legible |-> TRUE, spans |-> ss] :
     ss \in UNION {[1..n -> SpansDocumento] : n \in 0..MaxSpans}}
  \cup {[legible |-> FALSE, spans |-> <<>>]}

PaginaVacia == [legible |-> TRUE, spans |-> <<>>]

\* documents of up to two pages, documents at and over the cap of 400
\* pages, and a file that fitz.open cannot open
Documentos ==
  {[abre |-> TRUE, paginas |-> ps] :
     ps \in UNION {[1..n -> PaginasDocumento] : n \in 0..2}}
  \cup {[abre |-> TRUE, paginas |-> [k \in 1..n |-> PaginaVacia]] :
          n \in {400, 401}}
  \cup {[abre |-> FALSE, paginas |-> <<>>]}

-----------------------------------------------------------------------------
(* Specifications *)

ReposoPipeline ==
  /\ pdf_documento = [abre |-> FALSE, paginas |-> <<>>]
  /\ pcM = "inactivo"
  /\ num_paginas = 0
  /\ todas_paginas_bloques = <<>>
  /\ todas_paginas_parrafos = <<>>
  /\ i_pagina = 0
  /\ i_parrafo = 0
  /\ parrafos_traducidos = <<>>
  /\ paginas_traducidas = <<>>
  /\ salida = <<>>
  /\ excepcion = "None"
  /\ registro = <<>>
  /\ registro_pagina = <<>>

ReposoClasificar == span = <<>> /\ bloque_nuevo = <<>>

ReposoAgrupar ==
  /\ bloques = <<>>
  /\ i_bloque = 0
  /\ parrafos = <<>>
  /\ buffer = <<>>
  /\ ultimo_y = <<>>
  /\ ultimo_tipo = "None"
  /\ pcA = "inactivo"
  /\ origen = <<>>
  /\ buffer_idx = <<>>

ReposoTraducir ==
  /\ texto = <<>>
  /\ modo = "es"
  /\ pcT = "inactivo"
  /\ oraciones = <<>>
  /\ i_oracion = 0
  /\ buffer_trad = <<>>
  /\ texto_traducido = <<>>
  /\ retorno = <<>>
  /\ llamadas = <<>>
  /\ eventos = <<>>
  /\ trozos = <<>>
  /\ trozo_actual = <<>>

\* one span handed to the TextBlock constructor
InitClasificar ==
  /\ span \in {<<s>> : s \in SpansClasificar}
  /\ bloque_nuevo = <<>>
  /\ ReposoAgrupar
  /\ ReposoTraducir
  /\ ReposoPipeline

NextClasificar == CrearTextBlock

SpecClasificar == InitClasificar /\ [][NextClasificar]_vars

\* one call of agrupar_bloques_en_parrafos on the blocks of a page
InitAgrupar ==
  /\ ReposoClasificar
  /\ ReposoTraducir
  /\ ReposoPipeline
  /\ bloques \in UNION {[1..n -> BloquesPagina] : n \in 0..MaxBloques}
  /\ i_bloque = 0
  /\ parrafos = <<>>
  /\ buffer = <<>>
  /\ ultimo_y = <<>>
  /\ ultimo_tipo = "None"
  /\ pcA = "entrada"
  /\ origen = <<>>
  /\ buffer_idx = <<>>

NextAgrupar == EntrarAgrupar \/ ProcesarBloque \/ FinalizarAgrupar

SpecAgrupar == InitAgrupar /\ [][NextAgrupar]_vars

\* one call of traducir_texto_inteligente; every service call may fail
InitTraducir ==
  /\ ReposoClasificar
  /\ ReposoAgrupar
  /\ ReposoPipeline
  /\ texto \in TextosTraducir
  /\ modo \in {"eco", "es"}
  /\ pcT = "entrada"
  /\ oraciones = <<>>
  /\ i_oracion = 0
  /\ buffer_trad = <<>>
  /\ texto_traducido = <<>>
  /\ retorno = <<>>
  /\ llamadas = <<>>
  /\ eventos = <<>>
  /\ trozos = <<>>
  /\ trozo_actual = <<>>

NextTraducir ==
  \/ EntrarTraducir
  \/ \E ok \in BOOLEAN : TraducirCorto(ok)
  \/ \E ok \in BOOLEAN : ProcesarOracion(ok)
  \/ \E ok \in BOOLEAN : TerminarTraducir(ok)

SpecTraducir == InitTraducir /\ [][NextTraducir]_vars

\* one press of the button on an uploaded file
InitPipeline ==
  /\ ReposoClasificar
  /\ ReposoAgrupar
  /\ ReposoTraducir
  /\ pdf_documento \in Documentos
  /\ pcM = "inicio"
  /\ num_paginas = 0
  /\ todas_paginas_bloques = <<>>
  /\ todas_paginas_parrafos = <<>>
  /\ i_pagina = 0
  /\ i_parrafo = 0
  /\ parrafos_traducidos = <<>>
  /\ paginas_traducidas = <<>>
  /\ salida = <<>>
  /\ excepcion = "None"
  /\ registro = <<>>
  /\ registro_pagina = <<>>

NextPipeline ==
  \/ AbrirPDF
  \/ ExtraerBloques
  \/ LlamarAgrupar
  \/ EntrarAgrupar
  \/ ProcesarBloque
  \/ FinalizarAgrupar
  \/ RecogerAgrupar
  \/ TerminarPaso2
  \/ LlamarTraducir
  \/ EntrarTraducir
  \/ \E ok \in BOOLEAN : TraducirCorto(ok)
  \/ \E ok \in BOOLEAN : ProcesarOracion(ok)
  \/ \E ok \in BOOLEAN : TerminarTraducir(ok)
  \/ RecogerTraducir
  \/ TerminarPagina
  \/ GenerarPDF

SpecPipeline == InitPipeline /\ [][NextPipeline]_vars

-----------------------------------------------------------------------------
(* Properties *)

RECURSIVE Aplanar(_)
Aplanar(listas) ==
  IF listas = <<>> THEN <<>> ELSE Head(listas) \o Aplanar(Tail(listas))

Rango(n) == [k \in 1..n |-> k]

Encabezados == {"titulo", "subtitulo"}

\* the unit (the buffer counting as the unit after the last) that block j
\* went into
Grupo(j) ==
  IF \E u \in 1..Len(origen) : \E m \in 1..Len(origen[u]) : origen[u][m] = j
  THEN CHOOSE u \in 1..Len(origen) :
         \E m \in 1..Len(origen[u]) : origen[u][m] = j
  ELSE Len(origen) + 1

TieneMarcador(text) == EsListaMarcador(text) \/ EsListaLetra(text)

\* C1: a block whose tipo is titulo or subtitulo is never in the buffer; the
\* unit it went into holds that block alone and has exactly its text, tipo
\* and font_size; right after it is processed the buffer is empty, it is the
\* last unit, and every block before it is already in a unit ahead of it.
C1_EncabezadoAislado ==
  /\ Len(origen) = Len(parrafos)
  /\ \A k \in 1..Len(buffer) : buffer[k].tipo \notin Encabezados
  /\ \A u \in 1..Len(origen) : \A m \in 1..Len(origen[u]) :
       bloques[origen[u][m]].tipo \in Encabezados =>
         /\ Len(origen[u]) = 1
         /\ parrafos[u] = [texto |-> bloques[origen[u][m]].text,
                           tipo |-> bloques[origen[u][m]].tipo,
                           font_size |-> bloques[origen[u][m]].font_size]
  /\ (pcA = "bucle" /\ i_bloque >= 1
        /\ bloques[i_bloque].tipo \in Encabezados) =>
       /\ buffer = <<>>
       /\ origen[Len(origen)] = <<i_bloque>>
       /\ Aplanar(origen) = Rango(i_bloque)

\* a heading has just been processed while a buffer was pending
C1_Testigo ==
  /\ pcA = "bucle"
  /\ i_bloque >= 2
  /\ bloques[i_bloque].tipo = "subtitulo"
  /\ bloques[i_bloque - 1].tipo \notin Encabezados
  /\ Len(parrafos) >= 2
  /\ parrafos[Len(parrafos)].texto = bloques[i_bloque].text
  /\ buffer = <<>>

\* C2: two consecutive non-heading blocks (the second arrives while the
\* buffer, ending with the first, is non-empty) are in the same unit exactly
\* when their y differ by at most 15; a difference above 15 puts the second
\* at the head of a new buffer.
C2_SaltoMayorQue15 ==
  \A j \in 1..(i_bloque - 1) :
    (bloques[j].tipo \notin Encabezados
       /\ bloques[j + 1].tipo \notin Encabezados) =>
      ((Grupo(j) = Grupo(j + 1)) <=> (Abs(bloques[j + 1].y - bloques[j].y) <= 15))

\* a gap of exactly 15 merged and a gap of exactly 16 split
C2_Testigo ==
  /\ pcA = "fin"
  /\ Len(bloques) = 3
  /\ \A j \in 1..3 : bloques[j].tipo \notin Encabezados
  /\ Abs(bloques[2].y - bloques[1].y) = 15
  /\ Abs(bloques[3].y - bloques[2].y) = 16
  /\ origen = <<(<<1, 2>>), (<<3>>)>>

\* C3: every emitted unit has the single-space join of its blocks' texts,
\* the tipo of its last block and the font_size of its first block; at the
\* end the units hold every block exactly once, in input order, and no
\* blocks give no units.
C3_UnidadesFieles ==
  /\ Len(origen) = Len(parrafos)
  /\ \A u \in 1..Len(origen) :
       /\ origen[u] # <<>>
       /\ parrafos[u].texto =
            JoinSp([m \in 1..Len(origen[u]) |-> bloques[origen[u][m]].text])
       /\ parrafos[u].tipo = bloques[origen[u][Len(origen[u])]].tipo
       /\ parrafos[u].font_size = bloques[origen[u][1]].font_size
  /\ pcA = "fin" => Aplanar(origen) = Rango(Len(bloques))
  /\ (pcA = "fin" /\ bloques = <<>>) => parrafos = <<>>

\* a finished page with a unit merged from blocks of different tipo and
\* font_size
C3_Testigo ==
  /\ pcA = "fin"
  /\ \E u \in 1..Len(origen) :
       /\ Len(origen[u]) >= 2
       /\ bloques[origen[u][1]].font_size
            # bloques[origen[u][Len(origen[u])]].font_size
       /\ bloques[origen[u][1]].tipo # bloques[origen[u][Len(origen[u])]].tipo

\* C4: for a text longer than max_caracteres, every chunk passed to the
\* translation service has at most max_caracteres characters.
C4_TrozoAcotado ==
  Len(texto) > MaxCaracteres =>
    \A k \in 1..Len(llamadas) : Len(llamadas[k].enviado) <= MaxCaracteres

\* C5: for a text longer than max_caracteres the chunks partition the
\* sentences in order, each chunk sent is the single-space join of its
\* sentences, and with a service that returns its input and never fails the
\* result is the single-space join of all the sentences (up to the blanks
\* strip() removes at the two ends).
C5_ParticionDeOraciones ==
  (pcT = "ret" /\ Len(texto) > MaxCaracteres /\ Strip(texto) # <<>>) =>
    /\ Aplanar(trozos) = Rango(Len(oraciones))
    /\ Len(trozos) = Len(llamadas)
    /\ \A k \in 1..Len(trozos) :
         llamadas[k].enviado =
           Strip(JoinSp([m \in 1..Len(trozos[k]) |-> oraciones[trozos[k][m]]]))
    /\ (modo = "eco" /\ \A k \in 1..Len(llamadas) : llamadas[k].ok) =>
         Strip(retorno) = Strip(JoinSp(oraciones))

\* a long text cut into several chunks, one of them of two sentences
C5_Testigo ==
  /\ pcT = "ret"
  /\ modo = "eco"
  /\ Len(texto) > MaxCaracteres
  /\ Len(trozos) >= 2
  /\ \E k \in 1..Len(trozos) : Len(trozos[k]) >= 2
  /\ \A k \in 1..Len(llamadas) : llamadas[k].ok
  /\ retorno = texto

\* C6 as stated: any text of at most max_caracteres characters, the empty
\* and the blank ones included, gets exactly one service call.
C6_UnaLlamadaSiempre ==
  (pcT = "ret" /\ Len(texto) <= MaxCaracteres) => Len(llamadas) = 1

\* C6 as amended: a text of at most max_caracteres characters gets exactly
\* one service call, of the whole text, when it holds a non-blank character,
\* and no call and the empty result when it is empty or blank.
C6_UnaLlamadaSiNoVacio ==
  (pcT = "ret" /\ Len(texto) <= MaxCaracteres) =>
    IF Strip(texto) = <<>>
    THEN llamadas = <<>> /\ retorno = <<>>
    ELSE Len(llamadas) = 1 /\ llamadas[1].enviado = texto

\* a text of exactly max_caracteres characters translated in one call
C6_Testigo ==
  /\ pcT = "ret"
  /\ Len(texto) = MaxCaracteres
  /\ Len(Dividir(texto)) >= 2
  /\ Len(llamadas) = 1
  /\ llamadas[1].ok

\* t without its blanks
SinBlancos(t) == SelectSeq(t, LAMBDA c : c \notin Espacios)

\* what the calls logged in reg give, chunk by chunk
ResultadosDe(m, reg) ==
  [c \in 1..Len(reg) |->
     IF reg[c].ok THEN Servicio(m, reg[c].enviado) ELSE reg[c].original]

\* C7: a chunk whose call failed is replaced by its own untranslated text
\* as it was accumulated (the text sent, plus the blank that follows its
\* last sentence in a long text) and the other chunks keep their
\* translation; every page and every unit comes out in the same place with
\* its tipo and font_size, its texto being the join of its chunks' results
\* (the original text, up to blanks, when every call failed), and the run
\* goes on to the output.
C7_FalloSustituye ==
  /\ Len(texto_traducido) <= Len(llamadas)
  /\ \A k \in 1..Len(texto_traducido) :
       /\ Strip(llamadas[k].original) = llamadas[k].enviado
       /\ texto_traducido[k] = ResultadosDe(modo, llamadas)[k]
  /\ (pcT = "ret" /\ llamadas # <<>>) =>
       retorno = JoinSp(ResultadosDe(modo, llamadas))
  /\ Len(paginas_traducidas) = Len(registro)
  /\ Len(paginas_traducidas) <= Len(todas_paginas_parrafos)
  /\ pcM = "hecho" =>
       /\ Len(paginas_traducidas) = Len(todas_paginas_parrafos)
       /\ salida # <<>>
  /\ \A p \in 1..Len(paginas_traducidas) :
       /\ Len(paginas_traducidas[p]) = Len(todas_paginas_parrafos[p])
       /\ Len(registro[p]) = Len(todas_paginas_parrafos[p])
       /\ \A k \in 1..Len(paginas_traducidas[p]) :
            /\ paginas_traducidas[p][k].tipo
                 = todas_paginas_parrafos[p][k].tipo
            /\ paginas_traducidas[p][k].font_size
                 = todas_paginas_parrafos[p][k].font_size
            /\ registro[p][k] # <<>>
            /\ paginas_traducidas[p][k].texto
                 = JoinSp(ResultadosDe(modo, registro[p][k]))
            /\ (\A c \in 1..Len(registro[p][k]) : ~registro[p][k][c].ok) =>
                 SinBlancos(paginas_traducidas[p][k].texto)
                   = SinBlancos(todas_paginas_parrafos[p][k].texto)

\* a finished run in which one unit lost a call and another unit of the
\* document is translated
C7_Testigo ==
  /\ pcM = "hecho"
  /\ \E p \in 1..Len(registro) : \E k \in 1..Len(registro[p]) :
       /\ Len(registro[p][k]) >= 2
       /\ ~registro[p][k][1].ok
       /\ registro[p][k][2].ok
  /\ \E p \in 1..Len(registro) : \E k \in 1..Len(registro[p]) :
       /\ \A c \in 1..Len(registro[p][k]) : registro[p][k][c].ok
       /\ paginas_traducidas[p][k].texto
            # todas_paginas_parrafos[p][k].texto

\* C8: a run ends without output only when the document cannot be opened
\* or has more than 400 pages; a page whose extraction fails does not end it.
C8_SoloAperturaOLimite ==
  pcM \in {"error", "rechazado"} =>
    (~pdf_documento.abre \/ Len(pdf_documento.paginas) > 400)

\* C9: tipo is the first matching rule of titulo, lista, subtitulo, parrafo
\* on the stripped text, font_size and is_bold, whatever x, y and page_num
\* are; a bold list item under 100 characters is a titulo.
C9_PrimeraRegla ==
  bloque_nuevo # <<>> =>
    LET b == bloque_nuevo[1]
    IN  /\ b.text = Strip(span[1].text)
        /\ b.tipo =
             (IF (b.font_size > 12 \/ b.is_bold) /\ Len(b.text) < 100
                THEN "titulo"
              ELSE IF TieneMarcador(b.text) THEN "lista"
              ELSE IF Len(b.text) < 80 /\ b.font_size > 10 THEN "subtitulo"
              ELSE "parrafo")
        /\ b.tipo = TextBlock(span[1].text, span[1].font_size, span[1].is_bold,
                              7, 7, 7).tipo
        /\ (b.is_bold /\ Len(b.text) < 100 /\ TieneMarcador(b.text)) =>
             b.tipo = "titulo"

\* a bold list item under 100 characters, classified
C9_Testigo ==
  /\ bloque_nuevo # <<>>
  /\ bloque_nuevo[1].is_bold
  /\ bloque_nuevo[1].font_size <= 12
  /\ TieneMarcador(bloque_nuevo[1].text)
  /\ Len(bloque_nuevo[1].text) = 99
  /\ bloque_nuevo[1].tipo = "titulo"

\* C10: within one long text a sleep stands between every two consecutive
\* service calls, whether the earlier one was answered or failed, and a
\* short text has no sleep.
C10_PausaEntreLlamadas ==
  /\ \A k \in 1..(Len(eventos) - 1) :
       eventos[k] = "llamada" => eventos[k + 1] = "sleep"
  /\ Len(texto) <= MaxCaracteres =>
       \A k \in 1..Len(eventos) : eventos[k] # "sleep"

====
